---- MODULE Spec2Model ----
(***************************************************************************)
(* Federated-learning aggregation canister (src/src/lib.rs).               *)
(*                                                                         *)
(* The canister state is the struct State; every #[update] method is one   *)
(* atomic action, except run_aggregation and get_symmetric_key_for_client, *)
(* which are split at their await (the vetkd_derive_key call): the message *)
(* that starts the call and every callback that resumes it are separate    *)
(* atomic steps, and any other message may run in between.  A panic traps  *)
(* the running message: the state written by that message is rolled back   *)
(* and the call is answered with a reject.                                 *)
(*                                                                         *)
(* Numbers.  A float is written [num, den, exp] for the rational           *)
(* (num / den) * 2^exp, and is the f32 or f64 itself: every floating-point *)
(* operation of the code (`+=`, `*`, `/`, `/=`, a cast) rounds its exact   *)
(* result to the nearest float of its type, ties to even, into the         *)
(* subnormal range, to a signed zero or to an infinity as IEEE 754 does.   *)
(* A number of a JSON text is its spelling, read digit by digit as         *)
(* serde_json reads it; a number that serde_json wrote is named by the f32 *)
(* it was written from.                                                    *)
(* An i64 or i128 is written <<hi, lo>> for hi * 2^62 + lo with lo small,  *)
(* so that the i64 range [-2^63, 2^63 - 1] and wrap-around modulo 2^64 are *)
(* computed exactly on the values the model draws.                         *)
(***************************************************************************)
EXTENDS Integers, Sequences, FiniteSets, TLC

VARIABLES
    global_model,        \* State.global_model: the serialized model (JSON tokens)
    model_updates,       \* State.model_updates: cycle -> (ClientId -> blob)
    clients,             \* State.clients: Vec<Principal>
    next_client_id,      \* State.next_client_id
    current_cycle,       \* State.current_cycle
    aggregation_mode,    \* State.aggregation_mode
    smpc_s_shares,       \* State.smpc_s_shares: cycle -> (ClientId -> Vec<i64>)
    smpc_t_sums,         \* State.smpc_t_sums: cycle -> (ClientId -> Vec<i64>)
    cycle_participants,  \* State.cycle_participants: cycle -> Vec<ClientId>
    runs,                \* the run_aggregation calls suspended at their await
    key_calls,           \* the get_symmetric_key_for_client calls suspended at theirs
    last,                \* the message executed last: method, outcome, inputs
    assigned             \* history: the id register_client returned to each caller

state == <<global_model, model_updates, clients, next_client_id, current_cycle,
           aggregation_mode, smpc_s_shares, smpc_t_sums, cycle_participants>>
vars == <<global_model, model_updates, clients, next_client_id, current_cycle,
          aggregation_mode, smpc_s_shares, smpc_t_sums, cycle_participants,
          runs, key_calls, last, assigned>>

(***************************************************************************)
(* Bounds of the exploration.                                              *)
(***************************************************************************)
MaxCycle == 1
MaxRuns == 1
MaxConcRuns == 2
MaxEntries == 2

Identities == {"a", "b", "c"}
TwoIdentities == {"a", "b"}

(***************************************************************************)
(* Finite maps (HashMap) as functions.                                     *)
(***************************************************************************)
EmptyMap == <<>>

MapInsert(m, k, v) == [x \in (DOMAIN m) \cup {k} |-> IF x = k THEN v ELSE m[x]]

MapRemove(m, k) == [x \in (DOMAIN m) \ {k} |-> m[x]]

MapGetOrDefault(m, k) == IF k \in DOMAIN m THEN m[k] ELSE EmptyMap

Range(s) == {s[i] : i \in DOMAIN s}

\* a position counted from one
Position_OneBased(s, p) ==
    IF \E i \in 1..Len(s) : s[i] = p
    THEN CHOOSE i \in 1..Len(s) : s[i] = p /\ \A j \in 1..(i - 1) : s[j] # p
    ELSE -1

\* Vec::iter().position(|&p| p == caller), 0-based; -1 stands for None
Position(s, p) ==
    IF \E i \in 1..Len(s) : s[i] = p
    THEN (CHOOSE i \in 1..Len(s) : s[i] = p /\ \A j \in 1..(i - 1) : s[j] # p) - 1
    ELSE -1

\* (0..n as u64).collect()
IdRange(n) == [i \in 1..n |-> i - 1]

(***************************************************************************)
(* Floats.  [num, den, exp] with den > 0 is the rational                   *)
(* (num / den) * 2^exp.  A float that an operation returns is odd * 2^k    *)
(* and is written in one way: as the integer num (den = 1, exp = 0) when   *)
(* that integer has at most 30 bits, as odd / 2^-k (exp = 0) when k is in  *)
(* -30..-1, and as [odd, 1, k] otherwise.  0 / 1 is +0.0, 0 / -1 is -0.0,  *)
(* 1 / 0 and -1 / 0 are the infinities and 0 / 0 is NaN.                   *)
(***************************************************************************)
Abs(x) == IF x < 0 THEN -x ELSE x

Min(x, y) == IF x <= y THEN x ELSE y

Max(x, y) == IF x >= y THEN x ELSE y

RECURSIVE Gcd(_, _)
Gcd(x, y) == IF y = 0 THEN x ELSE Gcd(y, x % y)

\* f with its numerator and its denominator divided by their divisor g
Over(f, g) == [num |-> f.num \div g, den |-> f.den \div g, exp |-> f.exp]

\* a rational (den > 0) in lowest terms
Norm(f) == Over(f, Gcd(Abs(f.num), f.den))

F(n) == [num |-> n, den |-> 1, exp |-> 0]

NaN == [num |-> 0, den |-> 0, exp |-> 0]

\* sign is 1 or -1
Inf(sign) == [num |-> sign, den |-> 0, exp |-> 0]

Zero(sign) == [num |-> 0, den |-> sign, exp |-> 0]

IsNaN(f) == f.den = 0 /\ f.num = 0

IsInf(f) == f.den = 0 /\ f.num # 0

IsZero(f) == f.den # 0 /\ f.num = 0

Sign(f) == IF f.num < 0 \/ (f.num = 0 /\ f.den < 0) THEN -1 ELSE 1

\* -f
Neg(f) == IF f.num = 0 THEN [f EXCEPT !.den = -f.den] ELSE [f EXCEPT !.num = -f.num]

RECURSIVE Pow2(_)
Pow2(n) == IF n = 0 THEN 1 ELSE 2 * Pow2(n - 1)

RECURSIVE Pow10(_)
Pow10(n) == IF n = 0 THEN 1 ELSE 10 * Pow10(n - 1)

\* the number of binary digits of n >= 0
RECURSIVE BitLen(_)
BitLen(n) == IF n = 0 THEN 0 ELSE 1 + BitLen(n \div 2)

\* n > 0 without its trailing zero bits, and their number
RECURSIVE OddPart(_)
OddPart(n) == IF n % 2 = 0 THEN OddPart(n \div 2) ELSE n
RECURSIVE TwoAdic(_)
TwoAdic(n) == IF n % 2 = 0 THEN 1 + TwoAdic(n \div 2) ELSE 0

\* the significant bits of an f32 and of an f64, the exponent of their least
\* positive value (2^-149, 2^-1074) and of the least power of two beyond
\* their finite values (2^128, 2^1024)
F32Bits == 24
F64Bits == 53
F32Least == -149
F64Least == -1074
F32Top == 128
F64Top == 1024

\* the float sign * odd * 2^k (odd > 0 and odd), written in the one way
Written(sign, odd, k) ==
    IF k >= 0 /\ BitLen(odd) + k <= 30
    THEN [num |-> sign * odd * Pow2(k), den |-> 1, exp |-> 0]
    ELSE IF k < 0 /\ -k <= 30
    THEN [num |-> sign * odd, den |-> Pow2(-k), exp |-> 0]
    ELSE [num |-> sign * odd, den |-> 1, exp |-> k]

\* the float sign * m * 2^e (m > 0)
Dyadic(sign, m, e) == Written(sign, OddPart(m), e + TwoAdic(m))

\* a / b rounded to the nearest integer, ties to the even one (a >= 0, b > 0)
RoundHalfEven(a, b) ==
    LET q == a \div b
        r == a % b
    IN  IF 2 * r > b \/ (2 * r = b /\ q % 2 = 1) THEN q + 1 ELSE q

\* the least k >= `k` with a * 2^k >= d (0 < a < d)
RECURSIVE ShiftUp(_, _, _)
ShiftUp(a, d, k) == IF a * Pow2(k) >= d THEN k ELSE ShiftUp(a, d, k + 1)

\* the exponent of the leading bit of a / d: 2^Log2 <= a / d < 2^(Log2 + 1)
Log2(a, d) == IF a >= d THEN BitLen(a \div d) - 1 ELSE -ShiftUp(a, d, 1)

\* the float n * 2^place of a format whose finite values are below 2^top,
\* for the integer n >= 0 that a value was rounded to at its last place: a
\* zero keeps the sign, a value that reaches 2^top is an infinity
Placed(sign, n, place, top) ==
    IF n = 0 THEN Zero(sign)
    ELSE IF BitLen(n) + place > top THEN Inf(sign)
    ELSE Dyadic(sign, n, place)

\* (a / d) * 2^e (a, d > 0) divided by 2^place and rounded to an integer,
\* ties to even, and multiplied back
RoundAt(sign, a, d, e, place, top) ==
    Placed(sign,
           IF place >= e THEN RoundHalfEven(a, d * Pow2(place - e))
           ELSE RoundHalfEven(a * Pow2(e - place), d),
           place, top)

\* the float nearest to sign * (a / d) * 2^e (a / d in lowest terms), ties to
\* even, in the format of `bits` significant bits whose last place is never
\* below 2^least and whose finite values are below 2^top.  A value odd * 2^k
\* of the format is returned as it is; any other value is rounded at its last
\* place, which is `bits` - 1 places below its leading bit and never below
\* 2^least: this rounds into the subnormal range, to zero and to infinity.
RoundRat(sign, a, d, e, bits, least, top) ==
    IF /\ OddPart(d) = 1
       /\ BitLen(OddPart(a)) <= bits
       /\ e - TwoAdic(d) + TwoAdic(a) >= least
       /\ e - TwoAdic(d) + BitLen(a) <= top
    THEN Dyadic(sign, a, e - TwoAdic(d))
    ELSE RoundAt(sign, a, d, e, Max(Log2(a, d) + e - bits + 1, least), top)

\* the float of the format nearest to the rational r # 0 in lowest terms
RoundNorm(r, bits, least, top) ==
    RoundRat(IF r.num < 0 THEN -1 ELSE 1, Abs(r.num), r.den, r.exp, bits, least, top)

\* the float of the format nearest to f: zeros, infinities and NaN are kept,
\* and so is an integer of at most `bits` bits that is written as an integer
RoundBits(f, bits, least, top) ==
    IF f.den = 0 THEN f
    ELSE IF f.num = 0 THEN Zero(IF f.den < 0 THEN -1 ELSE 1)
    ELSE IF f.den = 1 /\ f.exp = 0 /\ BitLen(Abs(f.num)) <= Min(bits, 30) THEN f
    ELSE RoundNorm(Norm(f), bits, least, top)

\* the result of an f32 operation or of a cast to f32, and of an f64 operation
RoundF32(f) == RoundBits(f, F32Bits, F32Least, F32Top)
RoundF64(f) == RoundBits(f, F64Bits, F64Least, F64Top)

\* the finite float f as a rational: a zero of either sign is 0
Rat(f) == IF f.num = 0 THEN F(0) ELSE f

\* the exact sum, product and quotient (y # 0) of two rationals
RatAdd(x, y) ==
    IF x.num = 0 THEN Norm(Rat(y))
    ELSE IF y.num = 0 THEN Norm(x)
    ELSE LET e == Min(x.exp, y.exp)
         IN  Norm([num |-> x.num * y.den * Pow2(x.exp - e) + y.num * x.den * Pow2(y.exp - e),
                   den |-> x.den * y.den,
                   exp |-> e])

RatMul(x, y) ==
    Norm([num |-> x.num * y.num, den |-> x.den * y.den, exp |-> x.exp + y.exp])

RatDiv(x, y) ==
    Norm([num |-> x.num * y.den * Sign(y), den |-> x.den * Abs(y.num),
          exp |-> x.exp - y.exp])

\* x + y before it is rounded: NaN for a NaN operand and for infinities of
\* opposite sign, -0.0 for two negative zeros, +0.0 for any other sum that is
\* zero
ExactSum(x, y) ==
    IF IsNaN(x) \/ IsNaN(y) THEN NaN
    ELSE IF IsInf(x) THEN (IF IsInf(y) /\ y.num # x.num THEN NaN ELSE x)
    ELSE IF IsInf(y) THEN y
    ELSE IF IsZero(x) /\ IsZero(y)
    THEN Zero(IF Sign(x) < 0 /\ Sign(y) < 0 THEN -1 ELSE 1)
    ELSE RatAdd(x, y)

\* x * y before it is rounded
ExactProduct(x, y) ==
    IF IsNaN(x) \/ IsNaN(y) THEN NaN
    ELSE IF IsInf(x) \/ IsInf(y)
    THEN (IF IsZero(x) \/ IsZero(y) THEN NaN ELSE Inf(Sign(x) * Sign(y)))
    ELSE IF IsZero(x) \/ IsZero(y) THEN Zero(Sign(x) * Sign(y))
    ELSE RatMul(x, y)

\* x / y before it is rounded
ExactQuotient(x, y) ==
    IF IsNaN(x) \/ IsNaN(y) THEN NaN
    ELSE IF IsInf(x) THEN (IF IsInf(y) THEN NaN ELSE Inf(Sign(x) * Sign(y)))
    ELSE IF IsInf(y) THEN Zero(Sign(x) * Sign(y))
    ELSE IF IsZero(y) THEN (IF IsZero(x) THEN NaN ELSE Inf(Sign(x) * Sign(y)))
    ELSE IF IsZero(x) THEN Zero(Sign(x) * Sign(y))
    ELSE RatDiv(x, y)

\* aggregated_model[i] += val, on f32
FAdd(x, y) == RoundF32(ExactSum(x, y))

\* *val /= num_updates, on f32, with num_updates = decrypted_updates_count as f32
FDivCount(x, n) == RoundF32(ExactQuotient(x, RoundF32(F(n))))

(***************************************************************************)
(* serde_json on Vec<f32>: the bytes are modelled as JSON tokens.  A       *)
(* number token is either a number that serde_json wrote from an f32       *)
(* ("num": it is named by that f32, and reading the text gives the f32     *)
(* back), or a number that a client spelled ("lit"): its sign, the digits  *)
(* before the decimal point, the digits after it (none: no point) and its  *)
(* exponent part (sci: whether there is one).  serde_json is the crate     *)
(* with its default features: it reads a number with its own decimal       *)
(* arithmetic on f64, not with a correctly rounded conversion.             *)
(***************************************************************************)
NoLit == [neg |-> FALSE, int |-> <<>>, frac |-> <<>>, sci |-> FALSE, exp |-> 0]

Tok(t) == [t |-> t, v |-> F(0), lit |-> NoLit]

\* serialize_f32: the shortest decimal that reads back as f; null for an
\* infinity and for NaN
NumTok(f) == IF f.den = 0 THEN Tok("null") ELSE [t |-> "num", v |-> f, lit |-> NoLit]

\* the number spelled [-] int [. frac] [e exp]
LitTok(neg, int, frac, sci, exp) ==
    [t |-> "lit", v |-> F(0),
     lit |-> [neg |-> neg, int |-> int, frac |-> frac, sci |-> sci, exp |-> exp]]

\* the integer n spelled in decimal digits
RECURSIVE DigitsOf(_)
DigitsOf(n) == IF n < 10 THEN <<n>> ELSE Append(DigitsOf(n \div 10), n % 10)

IntLit(n) == LitTok(n < 0, DigitsOf(Abs(n)), <<>>, FALSE, 0)

RECURSIVE JoinNums(_)
JoinNums(vec) ==
    IF Len(vec) = 0 THEN <<>>
    ELSE IF Len(vec) = 1 THEN <<NumTok(vec[1])>>
    ELSE <<NumTok(vec[1]), Tok(",")>> \o JoinNums(Tail(vec))

\* serde_json::to_vec(&Vec<f32>)
ToJson(vec) == <<Tok("[")>> \o JoinNums(vec) \o <<Tok("]")>>

\* the number of decimal digits of n >= 0
RECURSIVE DecLen(_)
DecLen(n) == IF n < 10 THEN 1 ELSE 1 + DecLen(n \div 10)

\* overflow!(significand * 10 + digit, u64::MAX)
Overflows(significand, digit) ==
    DecLen(significand) >= 19 /\ significand * 10 + digit > Pow2(64) - 1

\* parse_integer, parse_long_integer: the digits before the point are gathered
\* in a u64 until one does not fit; that digit and every later one only count
\* for the exponent
RECURSIVE IntegerPart(_, _, _, _)
IntegerPart(digits, i, significand, exponent) ==
    IF i > Len(digits) THEN [significand |-> significand, exponent |-> exponent]
    ELSE IF exponent > 0 \/ Overflows(significand, digits[i])
    THEN IntegerPart(digits, i + 1, significand, exponent + 1)
    ELSE IntegerPart(digits, i + 1, significand * 10 + digits[i], 0)

\* parse_decimal, parse_decimal_overflow: the digits after the point are
\* gathered until one does not fit; that digit and every later one are dropped
RECURSIVE DecimalPart(_, _, _, _, _)
DecimalPart(digits, i, significand, exponent, dropping) ==
    IF i > Len(digits) THEN [significand |-> significand, exponent |-> exponent]
    ELSE IF dropping \/ Overflows(significand, digits[i])
    THEN DecimalPart(digits, i + 1, significand, exponent, TRUE)
    ELSE DecimalPart(digits, i + 1, significand * 10 + digits[i], exponent - 1, FALSE)

\* POW10[k]: the f64 nearest to 10^k
Pow10F64(k) == RoundF64(F(Pow10(k)))

\* the table POW10 ends at 1e308
MaxPow10 == 308

\* a product that is infinite is an error (number out of range)
InRange(p) == [ok |-> ~IsInf(p), val |-> p]

\* f64_from_parts, for the f64 f = significand as f64: f * 10^exponent in f64
\* arithmetic with the powers of the table
RECURSIVE F64FromParts(_, _)
F64FromParts(f, exponent) ==
    IF Abs(exponent) <= MaxPow10
    THEN IF exponent >= 0
         THEN InRange(RoundF64(ExactProduct(f, Pow10F64(exponent))))
         ELSE [ok |-> TRUE, val |-> RoundF64(ExactQuotient(f, Pow10F64(-exponent)))]
    ELSE IF IsZero(f) THEN [ok |-> TRUE, val |-> f]
    ELSE IF exponent >= 0 THEN [ok |-> FALSE, val |-> f]
    ELSE F64FromParts(RoundF64(ExactQuotient(f, Pow10F64(MaxPow10))), exponent + MaxPow10)

\* parse_integer accepts one digit, or digits that do not begin with 0
WellSpelled(lit) == Len(lit.int) >= 1 /\ (Len(lit.int) > 1 => lit.int[1] # 0)

\* the f64 that f64_from_parts returned, with its sign, cast to f32
CastF32(neg, r) == [ok |-> r.ok, val |-> RoundF32(IF neg THEN Neg(r.val) ELSE r.val)]

\* parse_decimal, parse_exponent: a spelling with a point, an exponent part or
\* integer digits beyond a u64 is read as an f64 by f64_from_parts
ParseFloat(lit, parts) ==
    CastF32(lit.neg,
            F64FromParts(RoundF64(F(parts.significand)),
                         parts.exponent + (IF lit.sci THEN lit.exp ELSE 0)))

\* parse_number, after parse_integer gathered `whole`.  Digits alone that fit
\* a u64 are an integer: it is cast to f32 from u64, or from i64 when it has a
\* minus sign and is in -2^63..-1; -0 and the integers below -2^63 are cast to
\* f64 first.
ParseAfterInteger(lit, whole) ==
    IF whole.exponent = 0 /\ lit.frac = <<>> /\ ~lit.sci
    THEN IF ~lit.neg
         THEN [ok |-> TRUE, val |-> RoundF32(F(whole.significand))]
         ELSE IF \/ whole.significand = 0
                 \/ DecLen(whole.significand) >= 19 /\ whole.significand > Pow2(63)
         THEN [ok |-> TRUE, val |-> RoundF32(Neg(RoundF64(F(whole.significand))))]
         ELSE [ok |-> TRUE, val |-> RoundF32(F(-whole.significand))]
    ELSE ParseFloat(lit, DecimalPart(lit.frac, 1, whole.significand, whole.exponent, FALSE))

\* deserialize_f32 on a spelled number
ParseNumber(lit) ==
    IF ~WellSpelled(lit) THEN [ok |-> FALSE, val |-> F(0)]
    ELSE ParseAfterInteger(lit, IntegerPart(lit.int, 1, 0, 0))

\* a number token as an f32
ReadNumber(tok) ==
    IF tok.t = "num" THEN [ok |-> TRUE, val |-> RoundF32(RoundF64(tok.v))]
    ELSE ParseNumber(tok.lit)

\* the numbers of an array: an error if one of them is out of range
Collect(nums) ==
    IF \A i \in 1..Len(nums) : nums[i].ok
    THEN [ok |-> TRUE, vec |-> [i \in 1..Len(nums) |-> nums[i].val]]
    ELSE [ok |-> FALSE, vec |-> <<>>]

\* serde_json::from_slice::<Vec<f32>>: ok iff the tokens are "[" (number (","
\* number)*)? "]" and every number is in range
FromJson(bytes) ==
    LET n == Len(bytes)
        inner == SubSeq(bytes, 2, n - 1)
        shaped ==
            /\ n >= 2
            /\ bytes[1].t = "["
            /\ bytes[n].t = "]"
            /\ \/ Len(inner) = 0
               \/ /\ Len(inner) % 2 = 1
                  /\ \A i \in 1..Len(inner) :
                        IF i % 2 = 1 THEN inner[i].t \in {"num", "lit"}
                        ELSE inner[i].t = ","
    IN  IF shaped
        THEN Collect([i \in 1..((Len(inner) + 1) \div 2) |-> ReadNumber(inner[2 * i - 1])])
        ELSE [ok |-> FALSE, vec |-> <<>>]

(***************************************************************************)
(* vetKD key derivation and AES-256-GCM.                                   *)
(***************************************************************************)
NonceLen == 12

\* vetkd_derive_key under the fixed key_id: the service is deterministic in the
\* derivation path, so the key material it answers with is named by the path
VetkdDeriveKey(derivation_path) == [encrypted_key |-> derivation_path]

\* run_aggregation asks for derivation_path [b"model_update_encryption", principal]
DerivedKey(principal) == VetkdDeriveKey(<<"model_update_encryption", principal>>)
ForeignKey == VetkdDeriveKey(<<"model_update_encryption", "nobody">>)

\* nonce || ciphertext of `plain` under `key`
Seal(key, plain) == [bytes |-> NonceLen + Len(plain), key |-> key, plain |-> plain]
\* a blob too short to hold a nonce
ShortBlob == [bytes |-> NonceLen - 1, key |-> ForeignKey, plain |-> <<>>]

\* key.decrypt(nonce, ciphertext): Ok(plain) iff the tag verifies under key
Decrypt(key, blob) ==
    IF blob.key = key THEN [ok |-> TRUE, plain |-> blob.plain]
    ELSE [ok |-> FALSE, plain |-> <<>>]

\* outcomes of ic_cdk::call(.., "vetkd_derive_key", ..).await followed by
\* Aes256Gcm::new_from_slice(&response.encrypted_key)
KeyResponses == {"reject", "bad_key_length", "key"}

Vec(ints) == [i \in 1..Len(ints) |-> F(ints[i])]
Garbage == <<Tok("["), NumTok(F(1))>>

(***************************************************************************)
(* i64 / i128 arithmetic on <<hi, lo>> = hi * 2^62 + lo.                   *)
(***************************************************************************)
I(hi, lo) == <<hi, lo>>

\* the exact (mathematical) sum
IntAdd(x, y) == <<x[1] + y[1], x[2] + y[2]>>

\* -2^63 <= v <= 2^63 - 1
InI64(v) == \/ v[1] \in -1..1
            \/ v[1] = -2 /\ v[2] >= 0
            \/ v[1] = 2 /\ v[2] < 0

\* the value modulo 2^64, as an i64
Wrap64(v) ==
    IF InI64(v) THEN v
    ELSE IF v[1] > 0 THEN <<v[1] - 4, v[2]>> ELSE <<v[1] + 4, v[2]>>

(***************************************************************************)
(* f64 arithmetic on integers of up to 128 bits.  A natural number is a    *)
(* sequence of limbs in base 2^15, most significant first (the empty       *)
(* sequence is 0), and a binary float is [sign, man, exp] for              *)
(* sign * man * 2^exp with the natural man.                                *)
(***************************************************************************)
LimbBits == 15
Limb == Pow2(LimbBits)

\* without leading zero limbs
BigTrim(x) ==
    LET nz == {i \in 1..Len(x) : x[i] # 0}
    IN  IF nz = {} THEN <<>>
        ELSE SubSeq(x, CHOOSE i \in nz : \A j \in nz : i <= j, Len(x))

\* the natural number that is the sum of x[i] * Limb^(Len(x) - i), for integers
\* x[i] of either sign: the carries are propagated from the right
RECURSIVE Carry(_, _, _, _)
Carry(x, i, c, out) ==
    IF i = 0 THEN BigTrim(<<c>> \o out)
    ELSE LET v == x[i] + c
         IN  Carry(x, i - 1, v \div Limb, <<v % Limb>> \o out)

BigCarry(x) == Carry(x, Len(x), 0, <<>>)

\* quotient and remainder of x by d, 0 < d <= 2^16: long division
RECURSIVE LongDiv(_, _, _, _, _)
LongDiv(x, i, d, r, q) ==
    IF i > Len(x) THEN [quot |-> BigTrim(q), rem |-> r]
    ELSE LET v == r * Limb + x[i]
         IN  LongDiv(x, i + 1, d, v % d, Append(q, v \div d))

BigDivMod(x, d) == LongDiv(x, 1, d, 0, <<>>)

BigBitLen(x) == IF x = <<>> THEN 0 ELSE LimbBits * (Len(x) - 1) + BitLen(x[1])

BigIsOdd(x) == x # <<>> /\ x[Len(x)] % 2 = 1

BigInc(x) == IF x = <<>> THEN <<1>> ELSE BigCarry([x EXCEPT ![Len(x)] = @ + 1])

\* x \div 2^t, and whether a one bit was shifted out
BigShr(x, t) ==
    LET keep == IF t \div LimbBits >= Len(x) THEN 0 ELSE Len(x) - t \div LimbBits
        dm == BigDivMod(SubSeq(x, 1, keep), Pow2(t % LimbBits))
    IN  [quot |-> dm.quot,
         inexact |-> dm.rem # 0 \/ \E i \in (keep + 1)..Len(x) : x[i] # 0]

\* the value in 0..2^31-1 of a natural of at most two limbs
BigToInt(x) == IF Len(x) = 0 THEN 0 ELSE IF Len(x) = 1 THEN x[1] ELSE x[1] * Limb + x[2]

\* x + fraction (a fraction in (0, 1) if `sticky`, else 0), rounded to `bits`
\* significant bits, ties to even: the result is man * 2^shift.  A value with
\* a fraction comes with at least bits + 1 bits in x.
BigRound(x, sticky, bits) ==
    LET r == BigBitLen(x) - bits
    IN  IF r <= 0 THEN [man |-> x, shift |-> 0]
        ELSE LET t == BigShr(x, r - 1)
                 q == BigShr(t.quot, 1).quot
                 up == BigIsOdd(t.quot) /\ (t.inexact \/ sticky \/ BigIsOdd(q))
             IN  [man |-> IF up THEN BigInc(q) ELSE q, shift |-> r]

Bin(sign, man, exp) == [sign |-> sign, man |-> man, exp |-> exp]

\* the rounding of a binary float to `bits` significant bits (`as f32`)
BinRound(x, bits) ==
    LET r == BigRound(x.man, FALSE, bits)
    IN  Bin(x.sign, r.man, x.exp + r.shift)

\* the i128 v = hi * 2^62 + lo as a binary float, exactly (2^62 = 4 * Limb^4)
I128Exact(v) ==
    LET sign == IF v[1] < 0 \/ (v[1] = 0 /\ v[2] < 0) THEN -1 ELSE 1
    IN  Bin(sign, BigCarry(<<4 * sign * v[1], 0, 0, 0, sign * v[2]>>), 0)

\* v as f64
I128ToF64(v) == BinRound(I128Exact(v), F64Bits)

\* x / d for the integer d > 0, rounded to `bits` significant bits: d is
\* 2^t * odd with odd <= 2^16; man * 2^75 is divided by odd, which leaves a
\* quotient of 60 bits or more, and the remainder tells whether it is exact
BinDiv(x, d, bits) ==
    IF x.man = <<>> THEN x
    ELSE LET t == TwoAdic(d)
             dm == BigDivMod(x.man \o [i \in 1..5 |-> 0], d \div Pow2(t))
             r == BigRound(dm.quot, dm.rem # 0, bits)
         IN  Bin(x.sign, r.man, x.exp - 5 * LimbBits - t + r.shift)

\* the float record of a binary float of at most 25 bits
FloatOf(x) ==
    IF x.man = <<>> THEN F(0)
    ELSE LET raw == BigToInt(x.man)
             m == OddPart(raw)
             e == x.exp + TwoAdic(raw)
         IN  IF e >= 0 /\ BitLen(m) + e <= 30
             THEN [num |-> x.sign * m * Pow2(e), den |-> 1, exp |-> 0]
             ELSE IF e < 0 /\ -e <= 30
             THEN [num |-> x.sign * m, den |-> Pow2(-e), exp |-> 0]
             ELSE [num |-> x.sign * m, den |-> 1, exp |-> e]

\* how `+=` on i64 behaves on overflow depends on the build profile:
\* overflow-checks on: panic; off: two's-complement wrap
Builds == {"overflow_checks", "wrapping"}

(***************************************************************************)
(* Initial state: State::default().                                        *)
(***************************************************************************)
Idle == [pc |-> "idle"]

\* `last` records the message that was executed last: the method, how the
\* message ended ("ok": the call returned ret; "trap": it panicked and was
\* rolled back; "suspended": it reached an await), the caller and argument
\* (arg) where the method has them, and for a run_aggregation
\* message the slot and locals of the call when the message began and the key
\* service's answer it carried.
Msg(op, status, arg, ret) ==
    [op |-> op, status |-> status, arg |-> arg, ret |-> ret,
     slot |-> 0, run |-> Idle, response |-> "none"]
RunMsg(status, slot, run, response) ==
    [op |-> "run_aggregation", status |-> status, arg |-> <<>>, ret |-> <<>>,
     slot |-> slot, run |-> run, response |-> response]

\* State::default(), with `slots` places for suspended run_aggregation calls
InitWith(slots) ==
    /\ global_model = <<>>
    /\ model_updates = EmptyMap
    /\ clients = <<>>
    /\ next_client_id = 0
    /\ current_cycle = 0
    /\ aggregation_mode = "Plain"
    /\ smpc_s_shares = EmptyMap
    /\ smpc_t_sums = EmptyMap
    /\ cycle_participants = EmptyMap
    /\ runs = [r \in 1..slots |-> Idle]
    /\ key_calls = <<>>
    /\ last = Msg("none", "ok", <<>>, <<>>)
    /\ assigned = EmptyMap

Init == InitWith(MaxRuns)

(***************************************************************************)
(* register_client                                                         *)
(***************************************************************************)
\* a registry that never recognises its caller
Contains_Never(cl, caller) == FALSE

\* state.clients.contains(&caller)
Contains(cl, caller) == caller \in Range(cl)

\* a registration that also enters the new client into the recorded snapshots
RegisterClient_JoinsSnapshots(caller) ==
    IF caller \in Range(clients)
    THEN /\ last' = Msg("register_client", "trap", <<caller>>, <<>>)
         /\ UNCHANGED <<state, runs, assigned, key_calls>>
    ELSE /\ clients' = Append(clients, caller)
         /\ next_client_id' = next_client_id + 1
         /\ cycle_participants' =
               [k \in DOMAIN cycle_participants |-> Append(cycle_participants[k], next_client_id)]
         /\ last' = Msg("register_client", "ok", <<caller>>, next_client_id)
         /\ assigned' = MapInsert(assigned, caller, next_client_id)
         /\ UNCHANGED <<global_model, model_updates, current_cycle, aggregation_mode,
                        smpc_s_shares, smpc_t_sums, runs, key_calls>>

RegisterClient(caller) ==
    IF Contains(clients, caller)
    THEN /\ last' = Msg("register_client", "trap", <<caller>>, <<>>)
         /\ UNCHANGED <<state, runs, assigned, key_calls>>
    ELSE /\ clients' = Append(clients, caller)
         /\ next_client_id' = next_client_id + 1
         /\ last' = Msg("register_client", "ok", <<caller>>, next_client_id)
         /\ assigned' = MapInsert(assigned, caller, next_client_id)
         /\ UNCHANGED <<global_model, model_updates, current_cycle, aggregation_mode,
                        smpc_s_shares, smpc_t_sums, cycle_participants, runs,
                        key_calls>>

(***************************************************************************)
(* upload_model_update, upload_masked_update_s, upload_mask_sum_t          *)
(***************************************************************************)
\* an insert that keeps the value the client stored first
InsertForCycle_KeepFirst(map, cycle, client_id, value) ==
    IF client_id \in DOMAIN MapGetOrDefault(map, cycle)
    THEN map
    ELSE MapInsert(map, cycle, MapInsert(MapGetOrDefault(map, cycle), client_id, value))

\* map.entry(cycle).or_default().insert(client_id, value)
InsertForCycle(map, cycle, client_id, value) ==
    MapInsert(map, cycle, MapInsert(MapGetOrDefault(map, cycle), client_id, value))

\* what HashMap::insert returns: the value the entry held before, if any
Replaced(map, cycle, client_id) ==
    IF client_id \in DOMAIN MapGetOrDefault(map, cycle)
    THEN <<map[cycle][client_id]>>
    ELSE <<>>

UploadModelUpdate(caller, update) ==
    LET client_id == Position(clients, caller)
    IN  IF client_id = -1
        THEN /\ last' = Msg("upload_model_update", "trap", <<caller>>, <<>>)
             /\ UNCHANGED <<state, runs, assigned, key_calls>>
        ELSE /\ model_updates' = InsertForCycle(model_updates, current_cycle, client_id, update)
             /\ last' = Msg("upload_model_update", "ok", <<caller, update>>,
                          Replaced(model_updates, current_cycle, client_id))
             /\ UNCHANGED <<global_model, clients, next_client_id, current_cycle,
                            aggregation_mode, smpc_s_shares, smpc_t_sums,
                            cycle_participants, runs, assigned, key_calls>>

UploadMaskedUpdateS(caller, share) ==
    LET client_id == Position(clients, caller)
    IN  IF client_id = -1
        THEN /\ last' = Msg("upload_masked_update_s", "trap", <<caller>>, <<>>)
             /\ UNCHANGED <<state, runs, assigned, key_calls>>
        ELSE /\ smpc_s_shares' = InsertForCycle(smpc_s_shares, current_cycle, client_id, share)
             /\ last' = Msg("upload_masked_update_s", "ok", <<caller, share>>,
                          Replaced(smpc_s_shares, current_cycle, client_id))
             /\ UNCHANGED <<global_model, model_updates, clients, next_client_id,
                            current_cycle, aggregation_mode, smpc_t_sums,
                            cycle_participants, runs, assigned, key_calls>>

UploadMaskSumT(caller, sum) ==
    LET client_id == Position(clients, caller)
    IN  IF client_id = -1
        THEN /\ last' = Msg("upload_mask_sum_t", "trap", <<caller>>, <<>>)
             /\ UNCHANGED <<state, runs, assigned, key_calls>>
        ELSE /\ smpc_t_sums' = InsertForCycle(smpc_t_sums, current_cycle, client_id, sum)
             /\ last' = Msg("upload_mask_sum_t", "ok", <<caller, sum>>,
                          Replaced(smpc_t_sums, current_cycle, client_id))
             /\ UNCHANGED <<global_model, model_updates, clients, next_client_id,
                            current_cycle, aggregation_mode, smpc_s_shares,
                            cycle_participants, runs, assigned, key_calls>>

(***************************************************************************)
(* start_new_cycle                                                         *)
(***************************************************************************)
\* a cycle advance that also clears the model of the previous cycle
StartNewCycle_ResetsModel ==
    /\ current_cycle < MaxCycle
    /\ current_cycle' = current_cycle + 1
    /\ global_model' = <<>>
    /\ cycle_participants' =
           MapInsert(cycle_participants, current_cycle + 1, IdRange(Len(clients)))
    /\ last' = Msg("start_new_cycle", "ok", <<>>, current_cycle + 1)
    /\ UNCHANGED <<model_updates, clients, next_client_id, aggregation_mode,
                   smpc_s_shares, smpc_t_sums, runs, assigned, key_calls>>

StartNewCycle ==
    /\ current_cycle < MaxCycle
    /\ current_cycle' = current_cycle + 1
    /\ cycle_participants' =
           MapInsert(cycle_participants, current_cycle + 1, IdRange(Len(clients)))
    /\ last' = Msg("start_new_cycle", "ok", <<>>, current_cycle + 1)
    /\ UNCHANGED <<global_model, model_updates, clients, next_client_id, aggregation_mode,
                   smpc_s_shares, smpc_t_sums, runs, assigned, key_calls>>

(***************************************************************************)
(* run_aggregation                                                         *)
(*                                                                         *)
(* A suspended call is a record of its locals: the (current_cycle,         *)
(* cycle_updates, clients) snapshot, the entry `pending` whose key is      *)
(* being derived, the entries `todo` the loop has not reached, and the     *)
(* accumulators.  HashMap::iter() visits the entries in an arbitrary       *)
(* order: the next entry is any entry not visited yet.                     *)
(***************************************************************************)
Zeros(n) == [i \in 1..n |-> F(0)]

\* lines 127-136: fix the length on the first decoded vector, add a vector of
\* that length and count it
Accumulate(agg, count, update) ==
    LET sized == IF Len(agg) = 0 THEN Zeros(Len(update)) ELSE agg
    IN  IF Len(sized) = Len(update)
        THEN [agg |-> [i \in 1..Len(sized) |-> FAdd(sized[i], update[i])],
              count |-> count + 1]
        ELSE [agg |-> sized, count |-> count]

\* a loop body that skips a plaintext that is no float array instead of panicking
ProcessUpdate_GarbageSkipped(agg, count, key, blob) ==
    IF blob.bytes < NonceLen
    THEN [fatal |-> FALSE, agg |-> agg, count |-> count]
    ELSE LET dec == Decrypt(key, blob)
         IN  IF ~dec.ok
             THEN [fatal |-> FALSE, agg |-> agg, count |-> count]
             ELSE LET parsed == FromJson(dec.plain)
                  IN  IF ~parsed.ok
                      THEN [fatal |-> FALSE, agg |-> agg, count |-> count]
                      ELSE LET acc == Accumulate(agg, count, parsed.vec)
                           IN  [fatal |-> FALSE, agg |-> acc.agg, count |-> acc.count]

\* a loop body that counts an update it could not decrypt
ProcessUpdate_SkipCounted(agg, count, key, blob) ==
    IF blob.bytes < NonceLen
    THEN [fatal |-> FALSE, agg |-> agg, count |-> count + 1]
    ELSE LET dec == Decrypt(key, blob)
         IN  IF ~dec.ok
             THEN [fatal |-> FALSE, agg |-> agg, count |-> count + 1]
             ELSE LET parsed == FromJson(dec.plain)
                  IN  IF ~parsed.ok
                      THEN [fatal |-> TRUE, agg |-> agg, count |-> count]
                      ELSE LET acc == Accumulate(agg, count, parsed.vec)
                           IN  [fatal |-> FALSE, agg |-> acc.agg, count |-> acc.count]

\* lines 117-137: one loop body after the key arrived
ProcessUpdate(agg, count, key, blob) ==
    IF blob.bytes < NonceLen
    THEN [fatal |-> FALSE, agg |-> agg, count |-> count]
    ELSE LET dec == Decrypt(key, blob)
         IN  IF ~dec.ok
             THEN [fatal |-> FALSE, agg |-> agg, count |-> count]
             ELSE LET parsed == FromJson(dec.plain)
                  IN  IF ~parsed.ok
                      THEN [fatal |-> TRUE, agg |-> agg, count |-> count]
                      ELSE LET acc == Accumulate(agg, count, parsed.vec)
                           IN  [fatal |-> FALSE, agg |-> acc.agg, count |-> acc.count]

\* the sum written without the division
Averaged_NoDivision(agg, count) == agg

\* lines 141-144
Averaged(agg, count) == [i \in 1..Len(agg) |-> FDivCount(agg[i], count)]

\* a lookup that misses the client registered last
HasPrincipal_OffByOne(cl, client_id) == client_id + 1 < Len(cl)

\* clients.get(client_id as usize) is Some
HasPrincipal(cl, client_id) == client_id < Len(cl)

FreeSlot(r) == runs[r] = Idle /\ \A q \in 1..(r - 1) : runs[q] # Idle

\* a start that serializes the empty sum when it finds no update
RunAggregationBegin_EmptyCommits(r) ==
    /\ FreeSlot(r)
    /\ DOMAIN MapGetOrDefault(model_updates, current_cycle) = {}
    /\ global_model' = ToJson(<<>>)
    /\ last' = RunMsg("ok", r, Idle, "none")
    /\ UNCHANGED <<model_updates, clients, next_client_id, current_cycle, aggregation_mode,
                   smpc_s_shares, smpc_t_sums, cycle_participants, runs, assigned, key_calls>>

\* the message that starts the call: lines 90-113 up to the first await
RunAggregationBegin(r) ==
    /\ FreeSlot(r)
    /\ LET cycle_updates == MapGetOrDefault(model_updates, current_cycle)
       IN  IF DOMAIN cycle_updates = {}
           THEN /\ last' = RunMsg("ok", r, Idle, "none")
                /\ UNCHANGED <<state, runs, assigned, key_calls>>
           ELSE \E first \in DOMAIN cycle_updates :
                    IF ~HasPrincipal(clients, first)
                    THEN /\ last' = RunMsg("trap", r, Idle, "none")
                         /\ UNCHANGED <<state, runs, assigned, key_calls>>
                    ELSE /\ runs' = [runs EXCEPT ![r] =
                                 [pc |-> "await",
                                  current_cycle |-> current_cycle,
                                  cycle_updates |-> cycle_updates,
                                  clients |-> clients,
                                  pending |-> first,
                                  todo |-> (DOMAIN cycle_updates) \ {first},
                                  aggregated_model |-> <<>>,
                                  decrypted_updates_count |-> 0]]
                         /\ last' = RunMsg("suspended", r, Idle, "none")
                         /\ UNCHANGED <<state, assigned, key_calls>>

\* a commit that clears the cycle's updates also when nothing was summed
RunAggregationCommit_Always(agg, count, cycle) ==
    IF count > 0
    THEN /\ global_model' = ToJson([i \in 1..Len(agg) |-> FDivCount(agg[i], count)])
         /\ model_updates' = MapRemove(model_updates, cycle)
         /\ UNCHANGED <<clients, next_client_id, current_cycle, aggregation_mode,
                        smpc_s_shares, smpc_t_sums, cycle_participants>>
    ELSE /\ model_updates' = MapRemove(model_updates, cycle)
         /\ UNCHANGED <<global_model, clients, next_client_id, current_cycle,
                        aggregation_mode, smpc_s_shares, smpc_t_sums, cycle_participants>>

\* a commit that clears the updates of the cycle current at completion
RunAggregationCommit_CurrentCycle(agg, count, cycle) ==
    IF count > 0
    THEN /\ global_model' = ToJson([i \in 1..Len(agg) |-> FDivCount(agg[i], count)])
         /\ model_updates' = MapRemove(model_updates, current_cycle)
         /\ UNCHANGED <<clients, next_client_id, current_cycle, aggregation_mode,
                        smpc_s_shares, smpc_t_sums, cycle_participants>>
    ELSE UNCHANGED state

\* lines 140-150: the commit after the loop
RunAggregationCommit(agg, count, cycle) ==
    IF count > 0
    THEN /\ global_model' = ToJson(Averaged(agg, count))
         /\ model_updates' = MapRemove(model_updates, cycle)
         /\ UNCHANGED <<clients, next_client_id, current_cycle, aggregation_mode,
                        smpc_s_shares, smpc_t_sums, cycle_participants>>
    ELSE UNCHANGED state

\* the callback that resumes the call with the key service's answer: the rest
\* of the loop body, then either the next iteration up to its await or the commit
RunAggregationResume(r, response) ==
    /\ runs[r] # Idle
    /\ UNCHANGED <<assigned, key_calls>>
    /\ LET run == runs[r]
           key == DerivedKey(run.clients[run.pending + 1])
           out == ProcessUpdate(run.aggregated_model, run.decrypted_updates_count,
                                key, run.cycle_updates[run.pending])
       IN  IF response # "key" \/ out.fatal
           THEN /\ last' = RunMsg("trap", r, run, response)
                /\ runs' = [runs EXCEPT ![r] = Idle]
                /\ UNCHANGED state
           ELSE IF run.todo = {}
           THEN /\ last' = RunMsg("ok", r, run, response)
                /\ runs' = [runs EXCEPT ![r] = Idle]
                /\ RunAggregationCommit(out.agg, out.count, run.current_cycle)
           ELSE \E next \in run.todo :
                    IF ~HasPrincipal(run.clients, next)
                    THEN /\ last' = RunMsg("trap", r, run, response)
                         /\ runs' = [runs EXCEPT ![r] = Idle]
                         /\ UNCHANGED state
                    ELSE /\ runs' = [runs EXCEPT ![r] =
                                 [run EXCEPT !.pending = next,
                                             !.todo = run.todo \ {next},
                                             !.aggregated_model = out.agg,
                                             !.decrypted_updates_count = out.count]]
                         /\ last' = RunMsg("suspended", r, run, response)
                         /\ UNCHANGED state

(***************************************************************************)
(* run_smpc_aggregation                                                    *)
(***************************************************************************)
SMPC_SCALE == 1000000

\* the orders in which HashMap::values() may yield the entries of a map
Orders(keys) ==
    {o \in [1..Cardinality(keys) -> keys] : \A i, j \in DOMAIN o : o[i] = o[j] => i = j}

ZerosI64(n) == [i \in 1..n |-> I(0, 0)]

\* lines 261-274: `sum[i] += *val` over the vectors of length vec_len, in the
\* order given; on overflow of an i64 the checked build panics, the other wraps
RECURSIVE SumVectors(_, _, _, _, _)
SumVectors(build, vecs, vec_len, sum, num) ==
    IF Len(vecs) = 0 THEN [trap |-> FALSE, sum |-> sum, num |-> num]
    ELSE IF Len(Head(vecs)) # vec_len
    THEN SumVectors(build, Tail(vecs), vec_len, sum, num)
    ELSE LET exact == [i \in 1..vec_len |-> IntAdd(sum[i], Head(vecs)[i])]
         IN  IF build = "overflow_checks" /\ \E i \in 1..vec_len : ~InI64(exact[i])
             THEN [trap |-> TRUE, sum |-> sum, num |-> num]
             ELSE SumVectors(build, Tail(vecs), vec_len,
                             [i \in 1..vec_len |-> Wrap64(exact[i])], num + 1)

\* lines 280-282: ((sum_s as i128 + sum_t as i128) as f64 / num_s as f64
\*                 / SMPC_SCALE as f64) as f32: every step rounds
ScaledAverage(sum_s, sum_t, num_s) ==
    LET total_sum == IntAdd(sum_s, sum_t)
        avg_scaled == BinDiv(I128ToF64(total_sum), num_s, F64Bits)
    IN  FloatOf(BinRound(BinDiv(avg_scaled, SMPC_SCALE, F64Bits), F32Bits))

\* a call that discards the cycle's mask sums without aggregating
RunSmpcAggregation_DropsSums(build) ==
    /\ smpc_t_sums' = MapRemove(smpc_t_sums, current_cycle)
    /\ last' = Msg("run_smpc_aggregation", "ok",
                   <<MapGetOrDefault(smpc_s_shares, current_cycle),
                     MapGetOrDefault(smpc_t_sums, current_cycle)>>, <<>>)
    /\ UNCHANGED <<global_model, model_updates, clients, next_client_id, current_cycle,
                   aggregation_mode, smpc_s_shares, cycle_participants, runs, assigned, key_calls>>

RunSmpcAggregation(build) ==
    LET cycle == current_cycle
        s_map == MapGetOrDefault(smpc_s_shares, current_cycle)
        t_map == MapGetOrDefault(smpc_t_sums, current_cycle)
        called == <<s_map, t_map>>
    IN  /\ UNCHANGED <<runs, assigned, key_calls>>
        /\ IF DOMAIN s_map = {} \/ DOMAIN t_map = {}
           THEN /\ last' = Msg("run_smpc_aggregation", "ok", called, <<>>)
                /\ UNCHANGED state
           ELSE \E s_order \in Orders(DOMAIN s_map) : \E t_order \in Orders(DOMAIN t_map) :
                   LET vec_len == Len(s_map[s_order[1]])
                       s == SumVectors(build, [i \in DOMAIN s_order |-> s_map[s_order[i]]],
                                       vec_len, ZerosI64(vec_len), 0)
                       t == SumVectors(build, [i \in DOMAIN t_order |-> t_map[t_order[i]]],
                                       vec_len, ZerosI64(vec_len), 0)
                   IN  IF s.trap \/ t.trap
                       THEN /\ last' = Msg("run_smpc_aggregation", "trap", called, <<>>)
                            /\ UNCHANGED state
                       ELSE IF s.num = 0
                       THEN /\ last' = Msg("run_smpc_aggregation", "ok", called, <<>>)
                            /\ UNCHANGED state
                       ELSE /\ global_model' =
                                   ToJson([i \in 1..vec_len |->
                                              ScaledAverage(s.sum[i], t.sum[i], s.num)])
                            /\ smpc_s_shares' = MapRemove(smpc_s_shares, cycle)
                            /\ smpc_t_sums' = MapRemove(smpc_t_sums, cycle)
                            /\ last' = Msg("run_smpc_aggregation", "ok", called, <<>>)
                            /\ UNCHANGED <<model_updates, clients, next_client_id,
                                           current_cycle, aggregation_mode,
                                           cycle_participants>>

(***************************************************************************)
(* The plain pipeline.  Every message is taken at any time: registrations  *)
(* and uploads also run while a run_aggregation call is suspended at its   *)
(* await, and up to MaxRuns such calls are in flight together.             *)
(*                                                                         *)
(* SpecAgg: three clients whose updates all decrypt and decode.            *)
(* SpecFaults: two clients, with blobs that are too short, that do not     *)
(* authenticate, or whose plaintext is no float array, and with every      *)
(* answer of the key service.                                              *)
(***************************************************************************)
\* the gradient vectors each client may hold; the sum 16777216 + 1 + 1 of the
\* first coordinates is rounded at its first `+=` when 16777216 comes first
Gradients(p) ==
    IF p = "a" THEN {<<1, 2>>}
    ELSE IF p = "b" THEN {<<1, 4>>}
    ELSE {<<5, 6, 7>>, <<>>, <<16777216, 6>>}

\* the text of a vector of integers spelled by hand: the numbers are written in
\* turn as an integer and as a decimal, "[1, 4.0]" for <<1, 4>>
RECURSIVE JoinLits(_, _)
JoinLits(ints, i) ==
    IF i > Len(ints) THEN <<>>
    ELSE (IF i > 1 THEN <<Tok(",")>> ELSE <<>>)
         \o <<IF i % 2 = 1 THEN IntLit(ints[i])
              ELSE LitTok(ints[i] < 0, DigitsOf(Abs(ints[i])), <<0>>, FALSE, 0)>>
         \o JoinLits(ints, i + 1)

Spelled(ints) == <<Tok("[")>> \o JoinLits(ints, 1) \o <<Tok("]")>>

\* a and c serialize their gradient with serde_json, b spells the numbers
PlainInputs(p) ==
    {Seal(DerivedKey(p), IF p = "b" THEN Spelled(v) ELSE ToJson(Vec(v))) : v \in Gradients(p)}

\* the key service answers with a key or rejects the call
ConcResponses == {"key", "reject"}

NextAgg ==
    \/ \E p \in Identities : RegisterClient(p)
    \/ \E p \in Identities : \E b \in PlainInputs(p) : UploadModelUpdate(p, b)
    \/ \E r \in 1..MaxRuns : RunAggregationBegin(r)
    \/ \E r \in 1..MaxRuns : \E response \in ConcResponses : RunAggregationResume(r, response)

SpecAgg == Init /\ [][NextAgg]_vars

\* the blobs a client may upload in SpecFaults
FaultyInputs(p) ==
    IF p = "a"
    THEN {Seal(DerivedKey(p), ToJson(Vec(<<1, 2>>))), ShortBlob}
    ELSE {Seal(DerivedKey(p), ToJson(Vec(<<3, 4>>))),
          Seal(ForeignKey, ToJson(Vec(<<3, 4>>))),
          Seal(DerivedKey(p), Garbage)}

NextFaults ==
    \/ \E p \in TwoIdentities : RegisterClient(p)
    \/ \E p \in TwoIdentities : \E b \in FaultyInputs(p) : UploadModelUpdate(p, b)
    \/ \E r \in 1..MaxRuns : RunAggregationBegin(r)
    \/ \E r \in 1..MaxRuns : \E response \in KeyResponses : RunAggregationResume(r, response)

SpecFaults == Init /\ [][NextFaults]_vars

(***************************************************************************)
(* Reference notions for the claims about run_aggregation.  `run` is the   *)
(* record of a call's locals: its snapshot decides what the call must do.  *)
(***************************************************************************)
Snapshot(run) == DOMAIN run.cycle_updates

\* the entry of client c is long enough and authenticates under c's key
Decrypts(run, c) ==
    /\ run.cycle_updates[c].bytes >= NonceLen
    /\ run.cycle_updates[c].key = DerivedKey(run.clients[c + 1])

\* ... and its plaintext is a float array
Decodes(run, c) == Decrypts(run, c) /\ FromJson(run.cycle_updates[c].plain).ok

DecodedVec(run, c) == FromJson(run.cycle_updates[c].plain).vec

\* the sum of coordinate i over the clients in `set`, in exact arithmetic
RECURSIVE SumAt(_, _, _)
SumAt(run, set, i) ==
    IF set = {} THEN F(0)
    ELSE LET c == CHOOSE x \in set : TRUE
         IN  RatAdd(DecodedVec(run, c)[i], SumAt(run, set \ {c}, i))

\* the element-wise sum of the decoded vectors of the clients in `set` divided
\* by their number, computed exactly and written as an f32
MeanOf(run, set) ==
    LET len == Len(DecodedVec(run, CHOOSE c \in set : TRUE))
        sum(i) == SumAt(run, set, i)
    IN  [i \in 1..len |->
            RoundF32(ExactQuotient(sum(i), F(Cardinality(set))))]

\* the f32 running sum of coordinate i over the first k clients of `order`
RECURSIVE RunningSum(_, _, _, _)
RunningSum(run, order, k, i) ==
    IF k = 0 THEN F(0)
    ELSE FAdd(RunningSum(run, order, k - 1, i), DecodedVec(run, order[k])[i])

\* the f32 running sum over `order`, divided in f32 by the number of vectors
FloatMeanIn(run, order) ==
    LET len == Len(DecodedVec(run, order[1]))
    IN  [i \in 1..len |-> FDivCount(RunningSum(run, order, Len(order), i), Len(order))]

\* the models an aggregation of the clients in `set` may write: one for every
\* order in which the loop may visit them
FloatMeans(run, set) == {ToJson(FloatMeanIn(run, order)) : order \in Orders(set)}

\* the rationals x and y are one number
SameNumber(x, y) == RatAdd(x, Neg(y)).num = 0

\* the rational x is an f32
IsF32(x) == ~IsInf(RoundF32(x)) /\ SameNumber(RoundF32(x), x)

\* every decoded value is finite and every sum of some of the vectors is an
\* f32, so that no `+=` rounds in any order, and the number of the vectors is
\* an f32, so that its cast does not round
ExactlySummable(run, set) ==
    /\ \A c \in set : \A i \in 1..Len(DecodedVec(run, c)) : DecodedVec(run, c)[i].den # 0
    /\ \A part \in (SUBSET set) \ {{}} :
          \A i \in 1..Len(DecodedVec(run, CHOOSE c \in part : TRUE)) :
              IsF32(SumAt(run, part, i))
    /\ IsF32(F(Cardinality(set)))

CommonLength(run, set) ==
    \A c, d \in set : Len(DecodedVec(run, c)) = Len(DecodedVec(run, d))

\* the message executed last ended a run_aggregation call with a normal return
\* after its loop
Completed == last.op = "run_aggregation" /\ last.status = "ok" /\ last.run # Idle

\* the message executed last resumed a run_aggregation call
Resumed == last.op = "run_aggregation" /\ last.run # Idle

\* C1 (as claimed): when run_aggregation runs to completion and every update of
\* its snapshot decrypts and decodes to a vector of one common length, the new
\* GlobalModel is the element-wise sum of those vectors divided by their count,
\* and the update map of the cycle captured at call start is removed.
C1_MeanOfSnapshot ==
    (/\ Completed
     /\ \A c \in Snapshot(last.run) : Decodes(last.run, c)
     /\ CommonLength(last.run, Snapshot(last.run)))
        => /\ global_model = ToJson(MeanOf(last.run, Snapshot(last.run)))
           /\ last.run.current_cycle \notin DOMAIN model_updates

\* C1 (amended): ... the new GlobalModel is the 32-bit float running sum of
\* those vectors, taken in the order in which the call visited the snapshot and
\* rounded at every addition, divided in 32-bit floats by their count cast to a
\* 32-bit float; it is the element-wise sum divided by the count (written as a
\* 32-bit float) whenever neither an addition nor the cast rounds (the values
\* are finite, every sum of some of the vectors is a 32-bit float and so is the
\* count); and the update map of the cycle captured at call start is removed.
C1_FloatMeanOfSnapshot ==
    (/\ Completed
     /\ \A c \in Snapshot(last.run) : Decodes(last.run, c)
     /\ CommonLength(last.run, Snapshot(last.run)))
        => /\ global_model \in FloatMeans(last.run, Snapshot(last.run))
           /\ ExactlySummable(last.run, Snapshot(last.run))
                 => global_model = ToJson(MeanOf(last.run, Snapshot(last.run)))
           /\ last.run.current_cycle \notin DOMAIN model_updates

\* three vectors of length 2 were averaged and the first addition rounded: the
\* model is not the exact mean
C1_Witness ==
    /\ Completed
    /\ Cardinality(Snapshot(last.run)) = 3
    /\ \A c \in Snapshot(last.run) : Decodes(last.run, c)
    /\ CommonLength(last.run, Snapshot(last.run))
    /\ global_model \in FloatMeans(last.run, Snapshot(last.run))
    /\ global_model # ToJson(MeanOf(last.run, Snapshot(last.run)))
    /\ 0 \notin DOMAIN model_updates

\* C2 (as claimed): for every iteration order, a client whose decoded vector has
\* a different length from the vectors of two other clients, who agree in length,
\* is excluded, and the GlobalModel is the mean of the other two clients' vectors.
C2_OddLengthExcluded ==
    (/\ Completed
     /\ Cardinality(Snapshot(last.run)) = 3
     /\ \A c \in Snapshot(last.run) : Decodes(last.run, c))
        => \A odd \in Snapshot(last.run) :
              LET others == Snapshot(last.run) \ {odd}
              IN  (/\ CommonLength(last.run, others)
                   /\ \A c \in others :
                         Len(DecodedVec(last.run, c)) # Len(DecodedVec(last.run, odd)))
                      => global_model \in FloatMeans(last.run, others)

\* the failures the code treats as fatal: the key-derivation call fails (or its
\* answer is no AES-256 key), or the decrypted payload is no float array
FatalFailure(run, response) ==
    \/ response # "key"
    \/ Decrypts(run, run.pending) /\ ~FromJson(run.cycle_updates[run.pending].plain).ok

\* C7: a fatal failure inside run_aggregation aborts the whole invocation with
\* no state change: the message that meets the failure traps, the call is gone,
\* and neither it nor any earlier message of the invocation wrote the GlobalModel
\* or any per-cycle map (or any other state).
C7_FatalAbortsWithoutChange ==
    [][/\ (Resumed' /\ FatalFailure(last'.run, last'.response))
            => /\ last'.status = "trap"
               /\ runs'[last'.slot] = Idle
               /\ UNCHANGED state
       /\ (last'.op = "run_aggregation" /\ last'.status # "ok") => UNCHANGED state]_vars

C7_Witness ==
    /\ Resumed
    /\ last.status = "trap"
    /\ last.response = "key"
    /\ last.run.decrypted_updates_count >= 1
    /\ FatalFailure(last.run, last.response)
    /\ global_model = <<>>
    /\ model_updates[last.run.current_cycle] = last.run.cycle_updates

\* C8: an update whose blob is shorter than 12 bytes or whose AEAD decryption
\* fails is skipped without aborting: the message does not trap, the sum and the
\* success counter are unchanged by it, and the call goes on; at completion the
\* GlobalModel is the mean over the successfully summed updates only.
C8_SkipsUndecryptable ==
    /\ (Resumed /\ last.response = "key" /\ ~Decrypts(last.run, last.run.pending))
          => /\ last.status # "trap"
             /\ last.status = "suspended"
                   => /\ runs[last.slot].aggregated_model = last.run.aggregated_model
                      /\ runs[last.slot].decrypted_updates_count
                            = last.run.decrypted_updates_count
                      /\ runs[last.slot].pending \in last.run.todo
             /\ (last.status = "ok" /\ last.run.decrypted_updates_count > 0)
                   => global_model =
                         ToJson([i \in 1..Len(last.run.aggregated_model) |->
                                    FDivCount(last.run.aggregated_model[i],
                                              last.run.decrypted_updates_count)])
    /\ Completed =>
          LET good == {c \in Snapshot(last.run) : Decodes(last.run, c)}
          IN  (/\ good # Snapshot(last.run)
               /\ good # {}
               /\ CommonLength(last.run, good))
                 => /\ global_model \in FloatMeans(last.run, good)
                    /\ last.run.current_cycle \notin DOMAIN model_updates

\* a call completed over one update that does not authenticate and one that
\* decodes: the model is the latter's vector
C8_Witness ==
    /\ Completed
    /\ \E d, e \in Snapshot(last.run) :
          /\ last.run.cycle_updates[d].bytes >= NonceLen
          /\ ~Decrypts(last.run, d)
          /\ Decodes(last.run, e)
          /\ global_model = ToJson(DecodedVec(last.run, e))
          /\ last.run.current_cycle \notin DOMAIN model_updates

(***************************************************************************)
(* The SMPC pipeline: two clients upload masked shares and mask sums, in   *)
(* fixed point at scale 1e6; the values include shares and masks of        *)
(* magnitude 2^62, whose sums leave the i64 range.                         *)
(***************************************************************************)
MaskedShares(p) ==
    IF p = "a" THEN {<<I(0, 500000), I(0, -200000)>>, <<I(-1, 500000), I(-1, 0)>>}
    ELSE {<<I(-1, 500000), I(-1, 0)>>, <<I(0, 7)>>}

MaskSums(p) ==
    IF p = "a" THEN {<<I(0, 300000), I(0, 400000)>>, <<I(1, 0), I(1, 0)>>}
    ELSE {<<I(1, 0), I(1, 0)>>, <<I(0, 7)>>}

NextSmpc ==
    \/ \E p \in TwoIdentities : RegisterClient(p)
    \/ \E p \in TwoIdentities : \E v \in MaskedShares(p) :
          UploadMaskedUpdateS(p, v)
    \/ \E p \in TwoIdentities : \E v \in MaskSums(p) :
          UploadMaskSumT(p, v)
    \/ \E build \in Builds : RunSmpcAggregation(build)

SpecSmpc == Init /\ [][NextSmpc]_vars

(***************************************************************************)
(* Reference notions for the claims about run_smpc_aggregation: the maps   *)
(* the call read (recorded in last.arg) and their exact integer sums.      *)
(***************************************************************************)
SmpcCalled == last.op = "run_smpc_aggregation"
CalledS == last.arg[1]
CalledT == last.arg[2]

\* the call had both kinds of input
SmpcHadInputs == SmpcCalled /\ DOMAIN CalledS # {} /\ DOMAIN CalledT # {}

RECURSIVE ExactSumAt(_, _, _)
ExactSumAt(map, keys, i) ==
    IF keys = {} THEN I(0, 0)
    ELSE LET c == CHOOSE x \in keys : TRUE
         IN  IntAdd(map[c][i], ExactSumAt(map, keys \ {c}, i))

OfLength(map, len) == {c \in DOMAIN map : Len(map[c]) = len}

\* (sum of the s entries + sum of the t entries) / number of s vectors / 1e6,
\* over the vectors of length len of the maps s_map and t_map, in exact
\* arithmetic, written as an f32 (the nearest one)
ExactAverageOf(s_map, t_map, len) ==
    [i \in 1..len |->
        LET total == IntAdd(ExactSumAt(s_map, OfLength(s_map, len), i),
                            ExactSumAt(t_map, OfLength(t_map, len), i))
        IN  FloatOf(BinDiv(I128Exact(total),
                           Cardinality(OfLength(s_map, len)) * SMPC_SCALE, F32Bits))]

\* ... of the maps the last run_smpc_aggregation call read
ExactAverage(len) == ExactAverageOf(CalledS, CalledT, len)

SmpcSameLength ==
    \A c \in DOMAIN CalledS :
        /\ \A d \in DOMAIN CalledS : Len(CalledS[d]) = Len(CalledS[c])
        /\ \A e \in DOMAIN CalledT : Len(CalledT[e]) = Len(CalledS[c])

\* C3 (as claimed): when all MaskedShare and MaskSum vectors of the current cycle
\* have the same length, each coordinate of the GlobalModel that
\* run_smpc_aggregation writes equals (sum of all s + sum of all t) / num_s / 1e6
\* (with s_i = g_i_scaled - masks sent and every mask once in t, that is the mean
\* of the clients' g_i_scaled divided by the scale: the masks cancel exactly).
\* The clients that sent a share are those that sent a mask sum, so that every
\* mask in a t is subtracted in some s.
C3_MasksCancel ==
    (SmpcHadInputs /\ SmpcSameLength /\ DOMAIN CalledS = DOMAIN CalledT /\ last.status = "ok")
        => \A c \in DOMAIN CalledS : global_model = ToJson(ExactAverage(Len(CalledS[c])))

\* C4 (as claimed): for any i64 entries, accumulating sum_s and sum_t neither
\* traps nor wraps: the call returns and the per-coordinate total behind the
\* written average is the exact integer sum of all summed entries.
C4_NoOverflowWhileSumming ==
    SmpcHadInputs
        => /\ last.status = "ok"
           /\ \E c \in DOMAIN CalledS : global_model = ToJson(ExactAverage(Len(CalledS[c])))

(***************************************************************************)
(* The three pipelines side by side: registration, the three uploads,      *)
(* start_new_cycle, run_aggregation and run_smpc_aggregation on one State. *)
(* Every message is taken at any time, also while run_aggregation calls    *)
(* are suspended at their await; up to MaxRuns such calls are in flight    *)
(* and at most MaxEntries uploads are stored at a time.                    *)
(***************************************************************************)
SmallPlainInputs(p) ==
    {Seal(DerivedKey(p), ToJson(Vec(<<1, 2>>))), ShortBlob}

SmallShares == {<<I(0, 500000), I(0, -200000)>>}

SmallSums == {<<I(0, 300000), I(0, 400000)>>}

\* the number of entries stored in a per-cycle map
RECURSIVE Stored(_)
Stored(map) ==
    IF DOMAIN map = {} THEN 0
    ELSE LET c == CHOOSE x \in DOMAIN map : TRUE
         IN  Cardinality(DOMAIN map[c]) + Stored(MapRemove(map, c))

\* an upload by p into `map` keeps the stored entries within MaxEntries
Room(map, p) ==
    \/ Stored(model_updates) + Stored(smpc_s_shares) + Stored(smpc_t_sums) < MaxEntries
    \/ Position(clients, p) \in DOMAIN MapGetOrDefault(map, current_cycle)

Next ==
    \/ \E p \in TwoIdentities : RegisterClient(p)
    \/ \E p \in TwoIdentities : \E b \in SmallPlainInputs(p) :
          Room(model_updates, p) /\ UploadModelUpdate(p, b)
    \/ \E p \in TwoIdentities : \E v \in SmallShares :
          Room(smpc_s_shares, p) /\ UploadMaskedUpdateS(p, v)
    \/ \E p \in TwoIdentities : \E v \in SmallSums :
          Room(smpc_t_sums, p) /\ UploadMaskSumT(p, v)
    \/ StartNewCycle
    \/ \E r \in 1..MaxRuns : RunAggregationBegin(r)
    \/ \E r \in 1..MaxRuns : \E response \in KeyResponses : RunAggregationResume(r, response)
    \/ \E build \in Builds : RunSmpcAggregation(build)

Spec == Init /\ [][Next]_vars

(***************************************************************************)
(* Reference notions for the claims about uploads and removals.            *)
(***************************************************************************)
UploadOps == {"upload_model_update", "upload_masked_update_s", "upload_mask_sum_t"}

\* the message executed last was a successful upload through method op
Uploaded(op) == last.op = op /\ last.status = "ok"

\* map `after` is map `before` with the one entry (cycle, id) set to value
SetsOneEntry(before, after, cycle, id, value) ==
    /\ DOMAIN after = (DOMAIN before) \cup {cycle}
    /\ \A k \in (DOMAIN before) \ {cycle} : after[k] = before[k]
    /\ DOMAIN after[cycle] = (DOMAIN MapGetOrDefault(before, cycle)) \cup {id}
    /\ after[cycle][id] = value
    /\ \A c \in (DOMAIN after[cycle]) \ {id} : after[cycle][c] = before[cycle][c]

\* every entry that is in both maps has the same value in both
SameEntries(before, after) ==
    \A k \in (DOMAIN before) \cap (DOMAIN after) : after[k] = before[k]

\* C5: uploads are last-write-wins per (cycle, client).  A successful upload
\* sets exactly the entry (current cycle, caller's id) of its own map to the
\* uploaded value, replacing what the caller stored there before, and touches
\* nothing else; no other message changes the value of a stored entry; and an
\* aggregation that starts reads the current cycle's map as it stands, that is
\* the latest value of each client.
C5_LastWriteWins ==
    [][/\ Uploaded("upload_model_update")'
            => /\ SetsOneEntry(model_updates, model_updates', current_cycle,
                               assigned[last'.arg[1]], last'.arg[2])
               /\ UNCHANGED <<smpc_s_shares, smpc_t_sums>>
       /\ Uploaded("upload_masked_update_s")'
            => /\ SetsOneEntry(smpc_s_shares, smpc_s_shares', current_cycle,
                               assigned[last'.arg[1]], last'.arg[2])
               /\ UNCHANGED <<model_updates, smpc_t_sums>>
       /\ Uploaded("upload_mask_sum_t")'
            => /\ SetsOneEntry(smpc_t_sums, smpc_t_sums', current_cycle,
                               assigned[last'.arg[1]], last'.arg[2])
               /\ UNCHANGED <<model_updates, smpc_s_shares>>
       /\ ~(last'.op \in UploadOps /\ last'.status = "ok")
            => /\ SameEntries(model_updates, model_updates')
               /\ SameEntries(smpc_s_shares, smpc_s_shares')
               /\ SameEntries(smpc_t_sums, smpc_t_sums')
               /\ DOMAIN model_updates' \subseteq DOMAIN model_updates
               /\ DOMAIN smpc_s_shares' \subseteq DOMAIN smpc_s_shares
               /\ DOMAIN smpc_t_sums' \subseteq DOMAIN smpc_t_sums
       /\ (last'.op = "run_aggregation" /\ last'.status = "suspended" /\ last'.run = Idle)
            => runs'[last'.slot].cycle_updates = model_updates[current_cycle]
       /\ (SmpcHadInputs' /\ last'.status = "ok")
            => /\ CalledS' = smpc_s_shares[current_cycle]
               /\ CalledT' = smpc_t_sums[current_cycle]
               /\ \E c \in DOMAIN smpc_s_shares[current_cycle] :
                     global_model' =
                        ToJson(ExactAverageOf(smpc_s_shares[current_cycle],
                                              smpc_t_sums[current_cycle],
                                              Len(smpc_s_shares[current_cycle][c])))]_vars

\* a client's second upload in a cycle replaced its first one
C5_Witness ==
    /\ Uploaded("upload_model_update")
    /\ last.ret # <<>>
    /\ last.ret[1] # last.arg[2]
    /\ model_updates[current_cycle][assigned[last.arg[1]]] = last.arg[2]
    /\ Cardinality(DOMAIN model_updates[current_cycle]) = 1

\* the snapshot of a completed run_aggregation call held an update that was
\* summed: the success counter is greater than zero
SummedSome(run) == \E c \in Snapshot(run) : Decodes(run, c)

\* C6: a cycle's map of encrypted updates, masked shares or mask sums is removed
\* only by the step of an aggregation of that cycle that ends with a success
\* count greater than zero and writes the GlobalModel; an aggregation whose
\* count is zero, and every message that is no aggregation, removes no map and
\* changes no map (uploads excepted, which only add).
C6_RemovedOnlyBySuccess ==
    [][/\ \A k \in (DOMAIN model_updates) \ (DOMAIN model_updates') :
             /\ Completed'
             /\ last'.run.current_cycle = k
             /\ SummedSome(last'.run)
             /\ LET good == {c \in Snapshot(last'.run) : Decodes(last'.run, c)}
                IN  CommonLength(last'.run, good)
                       => global_model' \in FloatMeans(last'.run, good)
             /\ UNCHANGED <<smpc_s_shares, smpc_t_sums>>
       /\ \A k \in ((DOMAIN smpc_s_shares) \ (DOMAIN smpc_s_shares'))
                      \cup ((DOMAIN smpc_t_sums) \ (DOMAIN smpc_t_sums')) :
             /\ SmpcHadInputs'
             /\ last'.status = "ok"
             /\ k = current_cycle
             /\ \E c \in DOMAIN smpc_s_shares[k] :
                   global_model' =
                      ToJson(ExactAverageOf(smpc_s_shares[k], smpc_t_sums[k],
                                            Len(smpc_s_shares[k][c])))
             /\ UNCHANGED model_updates
       /\ (Completed' /\ ~SummedSome(last'.run)) => UNCHANGED state
       /\ (SmpcCalled' /\ ~SmpcHadInputs') => UNCHANGED state
       /\ (last'.op \in {"run_aggregation", "run_smpc_aggregation"} /\ last'.status # "ok")
            => UNCHANGED <<model_updates, smpc_s_shares, smpc_t_sums>>
       /\ last'.op \in {"register_client", "start_new_cycle"}
            => UNCHANGED <<model_updates, smpc_s_shares, smpc_t_sums>>]_vars

\* a run_aggregation call that captured cycle 0 completed after the cycle had
\* advanced: it removed the updates of cycle 0 and wrote the model
C6_Witness ==
    /\ Completed
    /\ SummedSome(last.run)
    /\ last.run.current_cycle # current_cycle
    /\ last.run.current_cycle \notin DOMAIN model_updates
    /\ global_model = ToJson(Vec(<<1, 2>>))

(***************************************************************************)
(* The claims about the registry, under SpecFaults (two identities).       *)
(***************************************************************************)
\* C9: register_client by an identity that is already registered fails (the
\* message traps), and the failed attempt leaves the client list,
\* next_client_id and all other state unchanged.
C9_DuplicateRegistrationFails ==
    [][(last'.op = "register_client" /\ last'.arg[1] \in Range(clients))
          => /\ last'.status = "trap"
             /\ UNCHANGED <<state, runs, assigned, key_calls>>]_vars

C9_Witness ==
    /\ last.op = "register_client"
    /\ last.status = "trap"
    /\ last.arg[1] \in Range(clients)
    /\ Len(clients) = 2
    /\ next_client_id = 2

\* C10: ClientId assignment is dense, injective and stable: next_client_id is
\* the number of registered identities, no identity is registered twice, the
\* n-th successful registration returned n-1, the position by which an upload
\* resolves its caller is the id the caller was given, and an upload is stored
\* under that id.
C10_DenseInjectiveStableIds ==
    /\ next_client_id = Len(clients)
    /\ \A i, j \in 1..Len(clients) : clients[i] = clients[j] => i = j
    /\ DOMAIN assigned = Range(clients)
    /\ \A n \in 1..Len(clients) : assigned[clients[n]] = n - 1
    /\ \A p \in DOMAIN assigned : Position(clients, p) = assigned[p]
    /\ (last.op = "register_client" /\ last.status = "ok")
          => /\ last.ret = Len(clients) - 1
             /\ clients[Len(clients)] = last.arg[1]
    /\ Uploaded("upload_model_update")
          => /\ last.arg[1] \in DOMAIN assigned
             /\ assigned[last.arg[1]] \in DOMAIN model_updates[current_cycle]
             /\ model_updates[current_cycle][assigned[last.arg[1]]] = last.arg[2]

\* the client registered second uploads, and its update is stored under id 1
C10_Witness ==
    /\ Len(clients) = 2
    /\ Uploaded("upload_model_update")
    /\ last.arg[1] = clients[2]
    /\ assigned[last.arg[1]] = 1
    /\ model_updates[current_cycle][1] = last.arg[2]

(***************************************************************************)
(* set_aggregation_mode and the queries.                                   *)
(***************************************************************************)
\* a String is the sequence of its characters
Str(chars) == chars

LowerCase == <<"a", "b", "c", "d", "e", "f", "g", "h", "i", "j", "k", "l", "m",
               "n", "o", "p", "q", "r", "s", "t", "u", "v", "w", "x", "y", "z">>
UpperCase == <<"A", "B", "C", "D", "E", "F", "G", "H", "I", "J", "K", "L", "M",
               "N", "O", "P", "Q", "R", "S", "T", "U", "V", "W", "X", "Y", "Z">>

\* u8::to_ascii_uppercase: 'a'..='z' to 'A'..='Z', every other character as it is
CharToAsciiUppercase(c) ==
    IF \E k \in 1..26 : LowerCase[k] = c
    THEN UpperCase[CHOOSE k \in 1..26 : LowerCase[k] = c]
    ELSE c

\* str::to_ascii_uppercase: character by character
ToAsciiUppercase(str) == [i \in DOMAIN str |-> CharToAsciiUppercase(str[i])]

\* the mode strings a caller may send: spellings of smpc in lower, upper and
\* mixed case, one with a trailing blank, another word and the empty string
ModeStrings ==
    {Str(<<"s", "m", "p", "c">>), Str(<<"S", "M", "P", "C">>), Str(<<"s", "M", "p", "C">>),
     Str(<<"s", "m", "p", "c", " ">>), Str(<<"p", "l", "a", "i", "n">>), Str(<<>>)}

SetAggregationMode(mode) ==
    /\ aggregation_mode' = (IF ToAsciiUppercase(mode) = Str(<<"S", "M", "P", "C">>)
                            THEN "SMPC" ELSE "Plain")
    /\ last' = Msg("set_aggregation_mode", "ok", <<mode>>, <<>>)
    /\ UNCHANGED <<global_model, model_updates, clients, next_client_id, current_cycle,
                   smpc_s_shares, smpc_t_sums, cycle_participants, runs, assigned, key_calls>>

GetAggregationMode ==
    /\ last' = Msg("get_aggregation_mode", "ok", <<>>,
                   IF aggregation_mode = "Plain" THEN "PLAIN" ELSE "SMPC")
    /\ UNCHANGED <<state, runs, assigned, key_calls>>

GetGlobalModel ==
    /\ last' = Msg("get_global_model", "ok", <<>>, global_model)
    /\ UNCHANGED <<state, runs, assigned, key_calls>>

\* a query that answers with the current registry whatever the cycle
GetCycleParticipants_AlwaysRegistry(cycle) ==
    /\ last' = Msg("get_cycle_participants", "ok", <<cycle>>, IdRange(Len(clients)))
    /\ UNCHANGED <<state, runs, assigned, key_calls>>

GetCycleParticipants(cycle) ==
    /\ last' = Msg("get_cycle_participants", "ok", <<cycle>>,
                   IF cycle \in DOMAIN cycle_participants
                   THEN cycle_participants[cycle]
                   ELSE IdRange(Len(clients)))
    /\ UNCHANGED <<state, runs, assigned, key_calls>>

(***************************************************************************)
(* get_symmetric_key_for_client reads and writes no State.  It is split at *)
(* its await as run_aggregation is: the message that starts the call sends *)
(* the request for the path [derivation_path, caller] and suspends, and    *)
(* the callback traps if the key service rejected the call and otherwise   *)
(* returns the key in hexadecimal.  key_calls holds the suspended calls in *)
(* the order they were started; the callbacks arrive in any order.         *)
(***************************************************************************)
MaxKeyCalls == 1

\* the callers of get_symmetric_key_for_client: any principal may call
KeyCallers == {"a"}

\* the paths a caller may name: the one run_aggregation uses, and another
DerivationPaths == {"model_update_encryption", "some_other_path"}

\* hex::encode
HexEncode(bytes) == [hex |-> bytes]

\* the sequence without its i-th element
RemoveAt(seq, i) == SubSeq(seq, 1, i - 1) \o SubSeq(seq, i + 1, Len(seq))

\* lines 298-306, up to the await
GetSymmetricKeyForClientBegin(caller, derivation_path) ==
    /\ Len(key_calls) < MaxKeyCalls
    /\ key_calls' = Append(key_calls,
                           [derivation_path |-> <<derivation_path, caller>>])
    /\ last' = Msg("get_symmetric_key_for_client", "suspended",
                   <<caller, derivation_path>>, <<>>)
    /\ UNCHANGED <<state, runs, assigned>>

\* lines 306-308: .expect("vetkd_derive_key failed"), then hex::encode
GetSymmetricKeyForClientResume(i, response) ==
    /\ i \in 1..Len(key_calls)
    /\ key_calls' = RemoveAt(key_calls, i)
    /\ last' = (IF response = "reject"
                THEN Msg("get_symmetric_key_for_client", "trap",
                         key_calls[i].derivation_path, <<>>)
                ELSE Msg("get_symmetric_key_for_client", "ok",
                         key_calls[i].derivation_path,
                         HexEncode(VetkdDeriveKey(key_calls[i].derivation_path).encrypted_key)))
    /\ UNCHANGED <<state, runs, assigned>>

(***************************************************************************)
(* Every method of the canister on one State, with at most MaxStored       *)
(* uploads stored at a time, the cycles queried up to MaxCycle + 1, up to  *)
(* MaxRuns run_aggregation calls and up to MaxKeyCalls key calls in        *)
(* flight.  Every message is taken at any time.                            *)
(***************************************************************************)
MaxStored == 1

RoomAll(map, p) ==
    \/ Stored(model_updates) + Stored(smpc_s_shares) + Stored(smpc_t_sums) < MaxStored
    \/ Position(clients, p) \in DOMAIN MapGetOrDefault(map, current_cycle)

NextAll ==
    \/ \E p \in TwoIdentities : RegisterClient(p)
    \/ \E p \in TwoIdentities : \E b \in SmallPlainInputs(p) :
          RoomAll(model_updates, p) /\ UploadModelUpdate(p, b)
    \/ \E p \in TwoIdentities : \E v \in SmallShares :
          RoomAll(smpc_s_shares, p) /\ UploadMaskedUpdateS(p, v)
    \/ \E p \in TwoIdentities : \E v \in SmallSums :
          RoomAll(smpc_t_sums, p) /\ UploadMaskSumT(p, v)
    \/ StartNewCycle
    \/ \E r \in 1..MaxRuns : RunAggregationBegin(r)
    \/ \E r \in 1..MaxRuns : \E response \in KeyResponses : RunAggregationResume(r, response)
    \/ \E build \in Builds : RunSmpcAggregation(build)
    \/ \E mode \in ModeStrings : SetAggregationMode(mode)
    \/ GetAggregationMode
    \/ GetGlobalModel
    \/ \E cycle \in 0..(MaxCycle + 1) : GetCycleParticipants(cycle)
    \/ \E p \in KeyCallers : \E path \in DerivationPaths :
          GetSymmetricKeyForClientBegin(p, path)
    \/ \E i \in 1..MaxKeyCalls : \E response \in {"reject", "key"} :
          GetSymmetricKeyForClientResume(i, response)

SpecAll == Init /\ [][NextAll]_vars

(***************************************************************************)
(* The claims about the participant snapshots, under SpecInterleaved       *)
(* (defined below).                                                        *)
(***************************************************************************)
\* the ids 0..n-1
FirstIds(n) == [i \in 1..n |-> i - 1]

\* C11: a participant snapshot is immutable once recorded.  start_new_cycle
\* records for the cycle it opens, which had no snapshot before, the ids of the
\* clients registered at that moment; no message changes or removes a recorded
\* snapshot; and the id a later registration hands out is in no recorded
\* snapshot, whatever that client uploads afterwards.
C11_SnapshotImmutable ==
    [][/\ \A k \in DOMAIN cycle_participants :
             /\ k \in DOMAIN cycle_participants'
             /\ cycle_participants'[k] = cycle_participants[k]
       /\ last'.op = "start_new_cycle"
            => /\ current_cycle' \notin DOMAIN cycle_participants
               /\ DOMAIN cycle_participants' = (DOMAIN cycle_participants) \cup {current_cycle'}
               /\ cycle_participants'[current_cycle'] = FirstIds(Len(clients))
       /\ last'.op # "start_new_cycle" => cycle_participants' = cycle_participants
       /\ (last'.op = "register_client" /\ last'.status = "ok")
            => \A k \in DOMAIN cycle_participants' :
                  last'.ret \notin Range(cycle_participants'[k])]_vars

\* client 1 registered after the snapshot of cycle 1 was taken and uploaded to
\* cycle 1: the snapshot still holds client 0 only
C11_Witness ==
    /\ current_cycle = 1
    /\ cycle_participants[1] = <<0>>
    /\ Len(clients) = 2
    /\ Uploaded("upload_model_update")
    /\ assigned[last.arg[1]] = 1
    /\ 1 \in DOMAIN model_updates[1]

\* C12: get_cycle_participants(c) returns the recorded snapshot if
\* start_new_cycle recorded one for c, and otherwise the ids 0..n-1 of all
\* clients registered at the time of the query; the cycles without a recorded
\* snapshot are cycle 0 and the cycles after the current one.
C12_ParticipantsFallback ==
    /\ DOMAIN cycle_participants = 1..current_cycle
    /\ last.op = "get_cycle_participants"
          => /\ last.status = "ok"
             /\ last.arg[1] \in DOMAIN cycle_participants
                   => last.ret = cycle_participants[last.arg[1]]
             /\ last.arg[1] \notin DOMAIN cycle_participants
                   => last.ret = FirstIds(Len(clients))

\* the fallback for cycle 0 has grown to two clients while the recorded snapshot
\* of cycle 1 holds one
C12_Witness ==
    /\ last.op = "get_cycle_participants"
    /\ last.arg[1] = 0
    /\ last.ret = <<0, 1>>
    /\ current_cycle = 1
    /\ cycle_participants[1] = <<0>>

(***************************************************************************)
(* The claim about an SMPC call that finds no share, under SpecSmpc.       *)
(***************************************************************************)
\* C13: run_smpc_aggregation called when the current cycle has no MaskedShare
\* vector returns normally and changes nothing, also when MaskSum vectors are
\* stored: the GlobalModel, the MaskedShare map and the MaskSum map (and all
\* other state) are unchanged.
C13_NoSharesNoOp ==
    [][(last'.op = "run_smpc_aggregation"
          /\ DOMAIN MapGetOrDefault(smpc_s_shares, current_cycle) = {})
          => /\ last'.status = "ok"
             /\ UNCHANGED <<state, runs, assigned, key_calls>>]_vars

\* the call found mask sums but no masked share, and the mask sums are still stored
C13_Witness ==
    /\ SmpcCalled
    /\ last.status = "ok"
    /\ DOMAIN CalledS = {}
    /\ DOMAIN CalledT # {}
    /\ current_cycle \in DOMAIN smpc_t_sums
    /\ smpc_t_sums[current_cycle] = CalledT
    /\ current_cycle \notin DOMAIN smpc_s_shares

(***************************************************************************)
(* The claim about a run_aggregation call that finds nothing to aggregate, *)
(* under SpecInterleaved (defined below).                                  *)
(***************************************************************************)
\* the message executed last started a run_aggregation call
Started == last.op = "run_aggregation" /\ last.run = Idle

\* C14: run_aggregation invoked when the current cycle has no stored update
\* returns without error in the message that started it: no key derivation is
\* requested (no call is left suspended), and the GlobalModel and all other
\* state are unchanged.
C14_EmptyCycleNoOp ==
    [][(Started' /\ DOMAIN MapGetOrDefault(model_updates, current_cycle) = {})
          => /\ last'.status = "ok"
             /\ runs' = runs
             /\ UNCHANGED <<state, assigned, key_calls>>]_vars

\* the call found cycle 1 empty while the updates of cycle 0 are still stored
C14_Witness ==
    /\ Started
    /\ last.status = "ok"
    /\ \A r \in DOMAIN runs : runs[r] = Idle
    /\ current_cycle = 1
    /\ current_cycle \notin DOMAIN model_updates
    /\ 0 \in DOMAIN model_updates

(***************************************************************************)
(* Cycles and calls in flight on the plain pipeline.  In every cycle each  *)
(* client holds one gradient, which names the cycle.  SpecInterleaved has  *)
(* up to MaxRuns run_aggregation calls in flight and the participants      *)
(* query; SpecConc has up to MaxConcRuns calls in flight.                  *)
(***************************************************************************)
\* every client computes in cycle c the gradient <<2c+1, 2c+2>>, so that a
\* GlobalModel tells the cycle of the updates it was averaged from
CycleGradient(cycle) == <<2 * cycle + 1, 2 * cycle + 2>>

CycleInputs(p, cycle) == {Seal(DerivedKey(p), ToJson(Vec(CycleGradient(cycle))))}

NextInterleaved ==
    \/ \E p \in TwoIdentities : RegisterClient(p)
    \/ \E p \in TwoIdentities : \E b \in CycleInputs(p, current_cycle) :
          Room(model_updates, p) /\ UploadModelUpdate(p, b)
    \/ StartNewCycle
    \/ \E r \in 1..MaxRuns : RunAggregationBegin(r)
    \/ \E r \in 1..MaxRuns : \E response \in ConcResponses : RunAggregationResume(r, response)
    \/ \E cycle \in 0..(MaxCycle + 1) : GetCycleParticipants(cycle)

SpecInterleaved == Init /\ [][NextInterleaved]_vars

NextConc ==
    \/ \E p \in TwoIdentities : RegisterClient(p)
    \/ \E p \in TwoIdentities : \E b \in CycleInputs(p, current_cycle) :
          Room(model_updates, p) /\ UploadModelUpdate(p, b)
    \/ StartNewCycle
    \/ \E r \in 1..MaxConcRuns : RunAggregationBegin(r)
    \/ \E r \in 1..MaxConcRuns : \E response \in ConcResponses :
          RunAggregationResume(r, response)

InitConc == InitWith(MaxConcRuns)

SpecConc == InitConc /\ [][NextConc]_vars

\* C15: a start_new_cycle that runs while run_aggregation is suspended does not
\* invalidate the run.  No message of the run traps unless it meets a fatal
\* failure of its own; when the run completes with a summed update after the
\* cycle advanced, it writes the GlobalModel computed from its snapshot and
\* removes the update map of the cycle it captured, and the update maps of the
\* new current cycle and of every other cycle, and all other state, are as
\* they were.
C15_CycleAdvanceKeepsRun ==
    [][/\ (Resumed' /\ ~FatalFailure(last'.run, last'.response))
            => last'.status # "trap"
       /\ (Completed' /\ SummedSome(last'.run) /\ last'.run.current_cycle # current_cycle)
            => /\ global_model' \in FloatMeans(last'.run, Snapshot(last'.run))
               /\ DOMAIN model_updates' = (DOMAIN model_updates) \ {last'.run.current_cycle}
               /\ \A k \in DOMAIN model_updates' : model_updates'[k] = model_updates[k]
               /\ UNCHANGED <<clients, next_client_id, current_cycle, aggregation_mode,
                              smpc_s_shares, smpc_t_sums, cycle_participants>>]_vars

\* a run that captured cycle 0 completed in cycle 1: the updates of cycle 0 are
\* gone, those uploaded to cycle 1 meanwhile are stored
C15_Witness ==
    /\ Completed
    /\ SummedSome(last.run)
    /\ last.run.current_cycle = 0
    /\ current_cycle = 1
    /\ 0 \notin DOMAIN model_updates
    /\ 1 \in DOMAIN model_updates
    /\ global_model = ToJson(Vec(CycleGradient(0)))

\* C16: the GlobalModel is sticky.  It is empty in the initial state, and its
\* value changes only in the completing message of a run_aggregation call that
\* summed an update, or in a run_smpc_aggregation call that found masked shares
\* and mask sums and returned; every other message (registration, uploads,
\* start_new_cycle, set_aggregation_mode, the queries, trapped or empty
\* aggregations) leaves it as it is, and get_global_model returns it.
C16_GlobalModelSticky ==
    /\ global_model = <<>>
    /\ [][/\ global_model' # global_model
               => \/ Completed' /\ SummedSome(last'.run)
                  \/ SmpcHadInputs' /\ last'.status = "ok"
          /\ last'.op \notin {"run_aggregation", "run_smpc_aggregation"}
               => global_model' = global_model
          /\ last'.status = "trap" => global_model' = global_model
          /\ last'.op = "get_global_model" => last'.ret = global_model]_vars

\* the model written by a plain aggregation is still there after the mode was
\* switched and an SMPC aggregation found nothing to do
C16_Witness ==
    /\ SmpcCalled
    /\ ~SmpcHadInputs
    /\ aggregation_mode = "SMPC"
    /\ global_model = ToJson(Vec(<<1, 2>>))

(***************************************************************************)
(* The expected vector length within one run_aggregation call (SpecAgg).   *)
(***************************************************************************)
\* the entries the call has been through once the message executed last ended
Processed(run) == Snapshot(run) \ run.todo

\* C17 (as claimed): within one run_aggregation call the expected length is
\* fixed by the first successfully decoded vector and never changes: after
\* every message of the call, the success counter counts exactly the decoded
\* vectors that have the length of one decoded vector f (the first one), the
\* sum has that length, and decoded vectors of any other length were skipped;
\* this includes a first vector of length 0.
C17_LengthFixedByFirst ==
    (Resumed /\ last.status = "suspended")
        => LET run == last.run
               after == runs[last.slot]
               decoded == {c \in Processed(run) : Decodes(run, c)}
           IN  \/ decoded = {} /\ after.decrypted_updates_count = 0
               \/ \E f \in decoded :
                     /\ Len(after.aggregated_model) = Len(DecodedVec(run, f))
                     /\ after.decrypted_updates_count =
                           Cardinality({c \in decoded :
                               Len(DecodedVec(run, c)) = Len(DecodedVec(run, f))})

(***************************************************************************)
(* Uploads that arrive while a run_aggregation call is suspended           *)
(* (SpecInterleaved).                                                      *)
(***************************************************************************)
\* C18 (as claimed): no upload is lost across a suspension: when a completing
\* run_aggregation call removes the update map of its captured cycle, every
\* update in the removed map is an update of the call's start-of-call snapshot,
\* so that no update stored or overwritten meanwhile is deleted unread.
C18_NoUploadLost ==
    [][(/\ Completed'
        /\ last'.run.current_cycle \in DOMAIN model_updates
        /\ last'.run.current_cycle \notin DOMAIN model_updates')
          => \A c \in DOMAIN model_updates[last'.run.current_cycle] :
                /\ c \in Snapshot(last'.run)
                /\ model_updates[last'.run.current_cycle][c]
                      = last'.run.cycle_updates[c]]_vars

\* the ClientIds used as keys in a per-cycle map
KeysOf(map) == UNION {DOMAIN map[k] : k \in DOMAIN map}

\* C19: every ClientId that is a key in a per-cycle map is smaller than the
\* number of registered clients; every key of a suspended call's snapshot is
\* smaller than the length of the client list the call captured; and so the
\* positional lookup in run_aggregation never fails: a run_aggregation message
\* traps only on a failure of the key service or of the decoding.
C19_IdsWithinRegistry ==
    /\ \A c \in KeysOf(model_updates) \cup KeysOf(smpc_s_shares) \cup KeysOf(smpc_t_sums) :
          0 <= c /\ c < Len(clients)
    /\ \A r \in DOMAIN runs :
          runs[r] # Idle
             => /\ \A c \in Snapshot(runs[r]) : 0 <= c /\ c < Len(runs[r].clients)
                /\ Len(runs[r].clients) <= Len(clients)
                /\ \A i \in 1..Len(runs[r].clients) : runs[r].clients[i] = clients[i]
    /\ (last.op = "run_aggregation" /\ last.status = "trap")
          => /\ last.run # Idle
             /\ FatalFailure(last.run, last.response)

\* a call is suspended with the one-client list it captured; a client registered
\* meanwhile has uploaded to the same cycle under id 1
C19_Witness ==
    /\ runs[1] # Idle
    /\ Len(runs[1].clients) = 1
    /\ Len(clients) = 2
    /\ runs[1].current_cycle \in DOMAIN model_updates
    /\ 1 \in DOMAIN model_updates[runs[1].current_cycle]
    /\ 1 \notin Snapshot(runs[1])

(***************************************************************************)
(* Concurrent run_aggregation calls (SpecConc).                            *)
(***************************************************************************)
\* the cycle whose updates the GlobalModel gm was averaged from; -1 if none
ModelCycle(gm) ==
    IF \E c \in 0..MaxCycle : gm = ToJson(Vec(CycleGradient(c)))
    THEN CHOOSE c \in 0..MaxCycle : gm = ToJson(Vec(CycleGradient(c)))
    ELSE -1

\* C20 (as claimed): the GlobalModel never regresses to an older cycle: once it
\* holds the average of the updates of cycle c, no run_aggregation call whose
\* snapshot was taken in a cycle before c writes it, so the cycle of the
\* GlobalModel never decreases.
C20_NoRegression ==
    [][/\ (Completed' /\ SummedSome(last'.run))
            => last'.run.current_cycle >= ModelCycle(global_model)
       /\ ModelCycle(global_model') >= ModelCycle(global_model)]_vars
====
